---- MODULE Spec2Model ----
(***************************************************************************)
(* A model of src/backend/app.py: the rule-based triage handler            *)
(* POST /api/assess and the places-proxy handler GET /api/nearby-hospitals. *)
(*                                                                         *)
(* Python strings are TLA+ strings; str.lower, str.strip and the `in`      *)
(* substring test are computed character by character.  JSON values are    *)
(* records [t, s, items]: t is the JSON type, s the text of a string or    *)
(* number, items the elements of a list.  Distances are kept in whole      *)
(* metres.                                                                 *)
(***************************************************************************)
EXTENDS Integers, Sequences, FiniteSets, TLC

VARIABLES
    body,           \* assess: the JSON body of the request being answered
    assessResp,     \* assess: the response of the handler
    GEOAPIFY_KEY,   \* the credential read from the environment at start-up
    pc,             \* nearby_hospitals: position of the handler
    args,           \* nearby_hospitals: request.args of the request
    calls,          \* nearby_hospitals: outbound calls made for this request
    upstream,       \* nearby_hospitals: what the provider answered
    hospitals_all,  \* nearby_hospitals: the candidate records, sorted
    filtered,       \* nearby_hospitals: the records that are returned
    resp            \* nearby_hospitals: the response of the handler

vars == <<body, assessResp, GEOAPIFY_KEY, pc, args, calls, upstream,
          hospitals_all, filtered, resp>>

assessVars == <<body, assessResp>>

----------------------------------------------------------------------------
(* Bounds of the model.                                                    *)

MaxSymptoms == 3
MaxFeatures == 3
MaxPadded == 2
PadFeatures == 14

----------------------------------------------------------------------------
(* Python string operations.                                               *)

UpperChars == "ABCDEFGHIJKLMNOPQRSTUVWXYZ"
LowerChars == "abcdefghijklmnopqrstuvwxyz"

Char(s, i) == SubSeq(s, i, i)

UpperSet == {Char(UpperChars, i) : i \in 1..26}
LowerOf ==
    [c \in UpperSet |->
        Char(LowerChars, CHOOSE i \in 1..26 : Char(UpperChars, i) = c)]

LowerChar(c) == IF c \in UpperSet THEN LowerOf[c] ELSE c

\* the first n characters of s, lowercased
RECURSIVE LowerPrefix(_, _)
LowerPrefix(s, n) ==
    IF n = 0 THEN "" ELSE LowerPrefix(s, n - 1) \o LowerChar(Char(s, n))

lower(s) == LowerPrefix(s, Len(s))

\* Python's `sub in s` on two strings
Contains(s, sub) ==
    \E i \in 1..(Len(s) - Len(sub) + 1) : SubSeq(s, i, i + Len(sub) - 1) = sub

\* str.strip(): the text between the first and the last character that
\* is not a space
strip(s) ==
    LET kept == {i \in 1..Len(s) : Char(s, i) # " "}
    IN  IF kept = {} THEN ""
        ELSE SubSeq(s, CHOOSE i \in kept : \A j \in kept : i <= j,
                       CHOOSE i \in kept : \A j \in kept : i >= j)

Range(f) == {f[i] : i \in DOMAIN f}

----------------------------------------------------------------------------
(* JSON values.                                                            *)

JNull      == [t |-> "null", s |-> "", items |-> <<>>]
JMissing   == [t |-> "missing", s |-> "", items |-> <<>>]
JStr(x)    == [t |-> "str", s |-> x, items |-> <<>>]
JNum(x)    == [t |-> "num", s |-> x, items |-> <<>>]
JList(xs)  == [t |-> "list", s |-> "", items |-> xs]

\* the characters of a string, as Python iterates over it
Chars(x) == [i \in 1..Len(x) |-> JStr(Char(x, i))]

----------------------------------------------------------------------------
(* POST /api/assess                                                        *)

\* request bodies: t is "absent" (no or unparseable JSON, get_json gives
\* None), "falsy" (a JSON value Python treats as false: [], 0, "", false,
\* null), "nondict" (any other JSON value that is not an object) or "dict"
AbsentBody  == [t |-> "absent", symptoms |-> JMissing, severity |-> JMissing,
                duration |-> JMissing]
FalsyBody   == [t |-> "falsy", symptoms |-> JMissing, severity |-> JMissing,
                duration |-> JMissing]
NonDictBody == [t |-> "nondict", symptoms |-> JMissing, severity |-> JMissing,
                duration |-> JMissing]
DictBody(sy, se, du) ==
    [t |-> "dict", symptoms |-> sy, severity |-> se, duration |-> du]

\* data.get(key, default)
get(b, key, default) ==
    IF b.t = "dict" /\ b[key].t # "missing" THEN b[key] ELSE default

red_flag_symptoms ==
    {"chest pain", "difficulty breathing", "shortness of breath",
     "loss of consciousness", "severe bleeding", "sudden weakness"}

\* what `for s in symptoms` iterates over; only lists and strings iterate
Iterable(v) == v.t \in {"list", "str"}
Elements(v) == IF v.t = "str" THEN Chars(v.s) ELSE v.items

\* {s.lower() for s in symptoms}
lower_symptoms(symptoms) == {lower(x.s) : x \in Range(Elements(symptoms))}

\* `duration in {...}` hashes duration: a list raises TypeError
Hashable(v) == v.t # "list"
IsStr(v, x) == v.t = "str" /\ v.s = x
LongDurations == {"week", "weeks", "month", "chronic"}

\* the elif chain reaches `duration in {...}` only past the first two
\* tests and past `severity == "moderate"`
ReachesDurationTest(ls, severity) ==
    /\ ls \cap red_flag_symptoms = {}
    /\ ~IsStr(severity, "severe")
    /\ ~IsStr(severity, "moderate")

\* concern_level with the count test off by one (> 3 for >= 3)
concern_level_strict(symptoms, ls, severity, duration) ==
    IF ls \cap red_flag_symptoms # {} THEN "high"
    ELSE IF IsStr(severity, "severe") THEN "high"
    ELSE IF \/ IsStr(severity, "moderate")
            \/ (duration.t = "str" /\ duration.s \in LongDurations)
         THEN "moderate"
    ELSE IF Len(Elements(symptoms)) > 3 THEN "moderate"
    ELSE "low"

concern_level(symptoms, ls, severity, duration) ==
    IF ls \cap red_flag_symptoms # {} THEN "high"
    ELSE IF IsStr(severity, "severe") THEN "high"
    ELSE IF \/ IsStr(severity, "moderate")
            \/ (duration.t = "str" /\ duration.s \in LongDurations)
         THEN "moderate"
    ELSE IF Len(Elements(symptoms)) >= 3 THEN "moderate"
    ELSE "low"

AnyIn(keys, ls) == keys \cap ls # {}

\* infer_dept with the first two rules in the opposite order
infer_dept_swapped(ls) ==
    IF AnyIn({"chest pain", "palpitations", "heart"}, ls) THEN "Cardiology"
    ELSE IF AnyIn({"stomach pain", "abdominal pain", "nausea", "vomiting",
                   "diarrhea", "bloating"}, ls) THEN "Gastroenterology"
    ELSE IF AnyIn({"shortness of breath", "breathlessness", "cough",
                   "wheezing"}, ls) THEN "Pulmonology"
    ELSE IF AnyIn({"headache", "migraine", "dizziness", "numbness",
                   "seizure"}, ls) THEN "Neurology"
    ELSE IF AnyIn({"rash", "itching", "skin", "hives"}, ls)
         THEN "Dermatology"
    ELSE "Primary Care"

infer_dept(ls) ==
    IF AnyIn({"stomach pain", "abdominal pain", "nausea", "vomiting",
              "diarrhea", "bloating"}, ls) THEN "Gastroenterology"
    ELSE IF AnyIn({"chest pain", "palpitations", "heart"}, ls)
         THEN "Cardiology"
    ELSE IF AnyIn({"shortness of breath", "breathlessness", "cough",
                   "wheezing"}, ls) THEN "Pulmonology"
    ELSE IF AnyIn({"headache", "migraine", "dizziness", "numbness",
                   "seizure"}, ls) THEN "Neurology"
    ELSE IF AnyIn({"rash", "itching", "skin", "hives"}, ls)
         THEN "Dermatology"
    ELSE "Primary Care"

recommended_departments(concern, dept) ==
    LET withEmergency == IF concern = "high" THEN <<"Emergency">> ELSE <<>>
        withDept == IF dept # "Primary Care"
                    THEN Append(withEmergency, dept) ELSE withEmergency
    IN  IF withDept # <<>> THEN withDept
        ELSE IF concern = "moderate" THEN <<"General Medicine">>
        ELSE <<"Primary Care">>

\* an exception that leaves the handler: Flask answers 500 with its own
\* error page, no JSON body
Unhandled500 == [status |-> 500, concern_level |-> "",
                 recommended_departments |-> <<>>]
NoResponse   == [status |-> 0, concern_level |-> "",
                 recommended_departments |-> <<>>]

\* the exceptions of the handler body, in the order the code can raise them
assessRaises(b) ==
    LET symptoms == get(b, "symptoms", JList(<<>>))
        severity == get(b, "severity", JStr(""))
        duration == get(b, "duration", JStr(""))
    IN  \/ b.t = "nondict"                       \* data.get: AttributeError
        \/ ~Iterable(symptoms)                   \* for s in symptoms
        \/ \E x \in Range(Elements(symptoms)) : x.t # "str"   \* s.lower()
        \/ /\ ~Hashable(duration)
           /\ ReachesDurationTest(lower_symptoms(symptoms), severity)

assess(b) ==
    LET symptoms == get(b, "symptoms", JList(<<>>))
        severity == get(b, "severity", JStr(""))
        duration == get(b, "duration", JStr(""))
    IN  IF assessRaises(b) THEN Unhandled500
        ELSE LET ls == lower_symptoms(symptoms)
                 concern == concern_level(symptoms, ls, severity, duration)
             IN  [status |-> 200, concern_level |-> concern,
                  recommended_departments |->
                      recommended_departments(concern, infer_dept(ls))]

\* the requests of the model
SymptomPool ==
    {JStr("Chest Pain"), JStr("nausea"), JStr("cough"), JStr("headache"),
     JStr("rash"), JStr("fever"), JNum("7")}
SymptomLists == UNION {[1..n -> SymptomPool] : n \in 0..MaxSymptoms}
SymptomValues ==
    {JMissing, JNull, JNum("7"), JStr("flu")} \cup
    {JList(xs) : xs \in SymptomLists}
SeverityValues == {JMissing, JStr("mild"), JStr("moderate"), JStr("severe")}
DurationValues == {JMissing, JStr("day"), JStr("weeks"), JList(<<>>)}
Bodies ==
    {AbsentBody, FalsyBody, NonDictBody} \cup
    {DictBody(sy, se, du) : sy \in SymptomValues, se \in SeverityValues,
                            du \in DurationValues}

\* a request arrives
AssessRequest ==
    /\ pc = "idle"
    /\ body' \in Bodies
    /\ pc' = "assess"
    /\ UNCHANGED <<GEOAPIFY_KEY, assessResp, args, calls, upstream,
                   hospitals_all, filtered, resp>>

\* the handler
Assess ==
    /\ pc = "assess"
    /\ assessResp' = assess(body)
    /\ pc' = "done"
    /\ UNCHANGED <<GEOAPIFY_KEY, body, args, calls, upstream,
                   hospitals_all, filtered, resp>>

----------------------------------------------------------------------------
(* GET /api/nearby-hospitals: request parsing                              *)

Digits == "0123456789"
IsDigit(c) == \E i \in 1..10 : Char(Digits, i) = c
DigitVal(c) == (CHOOSE i \in 1..10 : Char(Digits, i) = c) - 1

\* the strings of the model that float() and int() accept: decimal digits
IsNumeric(s) == Len(s) > 0 /\ \A i \in 1..Len(s) : IsDigit(Char(s, i))

\* the value of the first n digits of s
RECURSIVE PrefixVal(_, _)
PrefixVal(s, n) ==
    IF n = 0 THEN 0 ELSE 10 * PrefixVal(s, n - 1) + DigitVal(Char(s, n))

NumVal(s) == PrefixVal(s, Len(s))

\* float(request.args.get(k)): TypeError on None, ValueError on a string
\* that is not a number
float_ok(a) == a.t = "str" /\ IsNumeric(a.s)

\* request.args.get(k) or default
Truthy(a) == a.t = "str" /\ a.s # ""

DefaultRadius == 20000

\* int(request.args.get("radius_m") or 20000)
radius_ok(a) == Truthy(a) => IsNumeric(a.s)
radius_m(a) == IF Truthy(a) THEN NumVal(a.s) ELSE DefaultRadius

\* (request.args.get("department") or "").strip().lower()
department(a) == IF Truthy(a) THEN lower(strip(a.s)) ELSE ""

dept_map ==
    [k \in {"cardiology", "neurology", "dermatology", "orthopedics",
            "gastroenterology", "pulmonology", "ent", "general medicine",
            "primary care"} |-> "healthcare"]
    @@ ("dental" :> "healthcare.dentist")
    @@ ("dentistry" :> "healthcare.dentist")
    @@ ("emergency" :> "healthcare.hospital")

geo_category(dept) ==
    LET dept_key == lower(strip(dept))
    IN  IF dept_key \in DOMAIN dept_map THEN dept_map[dept_key]
        ELSE "healthcare"

ResultLimit == 100

\* the outbound request: requests.get(url, params=params, timeout=8)
OutboundRequest(a) ==
    [categories |-> geo_category(department(a.department)),
     lng |-> NumVal(a.lng.s), lat |-> NumVal(a.lat.s),
     radius_m |-> radius_m(a.radius_m), limit |-> ResultLimit]

\* KeyConfigured when only None counts as missing
KeyNotNone == GEOAPIFY_KEY.t = "str"

KeyConfigured == GEOAPIFY_KEY.t = "str" /\ GEOAPIFY_KEY.s # ""

----------------------------------------------------------------------------
(* GET /api/nearby-hospitals: building the records                         *)

\* distance_km = None
None == -1

\* All points of the model lie on the meridian lng = 0, where the haversine
\* formula reduces to R * |dlat| (in radians): 6371 km * pi / 180 per degree.
MetresPerDegree == 111194

Abs(x) == IF x < 0 THEN 0 - x ELSE x

haversine_distance_km(lat1, lon1, lat2, lon2) ==
    MetresPerDegree * Abs(lat2 - lat1)

\* geometry.coordinates of a feature: "none" (no geometry or no
\* coordinates), "short" (fewer than two entries), "bad" (two entries that
\* float() rejects) or "point" (lng 0, lat as given)
distance_km(lat, lng, geom) ==
    IF geom.kind = "point"
    THEN haversine_distance_km(lat, lng, geom.lat, 0)
    ELSE None

AnyCat(cats_lower, sub) ==
    \E i \in DOMAIN cats_lower : Contains(cats_lower[i], sub)

AppendIf(cond, seq, x) == IF cond THEN Append(seq, x) ELSE seq

SpecialtyRules(name_lower, cats_lower) ==
    LET s1 == AppendIf(\/ AnyCat(cats_lower, "cardio")
                       \/ AnyCat(cats_lower, "heart")
                       \/ Contains(name_lower, "cardio")
                       \/ Contains(name_lower, "heart"), <<>>, "Cardiology")
        s2 == AppendIf(\/ AnyCat(cats_lower, "gastro")
                       \/ Contains(name_lower, "gastro"),
                       s1, "Gastroenterology")
        s3 == AppendIf(\/ AnyCat(cats_lower, "neuro")
                       \/ Contains(name_lower, "neuro"), s2, "Neurology")
        s4 == AppendIf(\/ AnyCat(cats_lower, "dermatology")
                       \/ Contains(name_lower, "derma")
                       \/ Contains(name_lower, "skin"), s3, "Dermatology")
        s5 == AppendIf(\/ Contains(name_lower, "ent")
                       \/ Contains(name_lower, "ear nose throat"), s4, "ENT")
        s6 == AppendIf(\/ AnyCat(cats_lower, "ortho")
                       \/ Contains(name_lower, "ortho")
                       \/ Contains(name_lower, "bone"), s5, "Orthopedics")
        s7 == AppendIf(\/ Contains(name_lower, "dent")
                       \/ Contains(name_lower, "dental")
                       \/ Contains(name_lower, "dentist"), s6, "Dental")
    IN  AppendIf(Contains(name_lower, "surgical"), s7, "Surgery")

inferred_specialties(name, categories) ==
    SpecialtyRules(lower(name),
                   [i \in DOMAIN categories |-> lower(categories[i])])

emergency(name, opening_hours) ==
    \/ Contains(lower(name), "emergency")
    \/ Contains(lower(name), "er")
    \/ Contains(opening_hours, "24/7")

address(feat) ==
    IF feat.formatted # "" THEN feat.formatted
    ELSE IF feat.address_line1 # "" THEN feat.address_line1
    ELSE "Address not available"

\* the record of the feature at position i (enumerate counts from 0); idx
\* keeps that position, the other fields are those of the code (lat, lng,
\* phone and rating are carried through unchanged and left out)
Record(feat, i, lat, lng) ==
    LET specialties == inferred_specialties(feat.name, feat.categories)
    IN  [id |-> IF feat.place_id # "" THEN feat.place_id ELSE ToString(i),
         idx |-> i,
         name |-> feat.name,
         address |-> address(feat),
         emergency |-> emergency(feat.name, feat.opening_hours),
         specialties |-> specialties,
         has_specialties |-> specialties # <<>>,
         distance_km |-> distance_km(lat, lng, feat.geometry)]

\* the loop over features: nameless features are skipped
RECURSIVE BuildRecords(_, _, _, _)
BuildRecords(features, n, lat, lng) ==
    IF n = 0 THEN <<>>
    ELSE IF features[n].name = "" THEN BuildRecords(features, n - 1, lat, lng)
    ELSE Append(BuildRecords(features, n - 1, lat, lng),
                Record(features[n], n - 1, lat, lng))

\* the sort key: (distance is None, distance or 99999)
UnknownKey == 99999000

\* SortKey without the `is None` component
SortKeyPlain(h) == <<0, h.distance_km>>

SortKey(h) ==
    <<IF h.distance_km = None THEN 1 ELSE 0,
      IF h.distance_km # None THEN h.distance_km ELSE UnknownKey>>

KeyLess(a, b) == a[1] < b[1] \/ (a[1] = b[1] /\ a[2] < b[2])

\* list.sort is stable: an element goes behind every element that is not
\* greater than it
Insert(sorted, h) ==
    LET p == Cardinality({i \in DOMAIN sorted :
                             ~KeyLess(SortKey(h), SortKey(sorted[i]))})
    IN  SubSeq(sorted, 1, p) \o <<h>> \o SubSeq(sorted, p + 1, Len(sorted))

\* the first n elements of hs, sorted
RECURSIVE SortPrefix(_, _)
SortPrefix(hs, n) ==
    IF n = 0 THEN <<>> ELSE Insert(SortPrefix(hs, n - 1), hs[n])

SortByDistance(hs) == SortPrefix(hs, Len(hs))

----------------------------------------------------------------------------
(* GET /api/nearby-hospitals: filter, fallback and response                *)

\* synonyms with a group for "dentistry"
synonyms_dentistry ==
    ("dental" :> {"dental", "dentist"})
    @@ ("dentistry" :> {"dental", "dentist"})
    @@ ("orthopedics" :> {"ortho", "orthopedics", "bone"})
    @@ ("cardiology" :> {"cardio", "cardiology", "heart"})
    @@ ("neurology" :> {"neuro", "neurology"})
    @@ ("dermatology" :> {"derma", "dermatology", "skin"})
    @@ ("gastroenterology" :> {"gastro", "gastroenterology"})
    @@ ("ent" :> {"ent", "ear", "nose", "throat"})
    @@ ("primary care" :> {"general", "primary", "family"})
    @@ ("general medicine" :> {"general", "medicine", "gp",
                               "general medicine"})

synonyms ==
    ("dental" :> {"dental", "dentist"})
    @@ ("orthopedics" :> {"ortho", "orthopedics", "bone"})
    @@ ("cardiology" :> {"cardio", "cardiology", "heart"})
    @@ ("neurology" :> {"neuro", "neurology"})
    @@ ("dermatology" :> {"derma", "dermatology", "skin"})
    @@ ("gastroenterology" :> {"gastro", "gastroenterology"})
    @@ ("ent" :> {"ent", "ear", "nose", "throat"})
    @@ ("primary care" :> {"general", "primary", "family"})
    @@ ("general medicine" :> {"general", "medicine", "gp",
                               "general medicine"})

matches_department(h, dept) ==
    IF dept = "" THEN TRUE
    ELSE LET dept_norm == lower(dept)
             specialties_lower ==
                 [i \in DOMAIN h.specialties |-> lower(h.specialties[i])]
         IN  IF dept_norm = "emergency"
             THEN \/ h.emergency
                  \/ \E i \in DOMAIN specialties_lower :
                         Contains(specialties_lower[i], "emergency")
             ELSE \/ \E i \in DOMAIN specialties_lower :
                         Contains(specialties_lower[i], dept_norm)
                  \/ /\ dept_norm \in DOMAIN synonyms
                     /\ \E v \in synonyms[dept_norm] :
                            Contains(lower(h.name \o " " \o h.address), v)

\* [h for h in hospitals_all[:n] if matches_department(h, department)]
RECURSIVE FilterPrefix(_, _, _)
FilterPrefix(hs, n, dept) ==
    IF n = 0 THEN <<>>
    ELSE IF matches_department(hs[n], dept)
         THEN Append(FilterPrefix(hs, n - 1, dept), hs[n])
         ELSE FilterPrefix(hs, n - 1, dept)

Filter(hs, dept) == FilterPrefix(hs, Len(hs), dept)

FallbackLimit == 15

\* hospitals_all[:15]
Nearest(hs) ==
    SubSeq(hs, 1, IF Len(hs) < FallbackLimit THEN Len(hs) ELSE FallbackLimit)

\* fallback_used without the test that a department was requested
fallback_any(dept, matched) == Len(matched) = 0

fallback_used(dept, matched) == dept # "" /\ Len(matched) = 0

format_distance(h) ==
    LET dk == h.distance_km
    IN  IF dk = None THEN ""
        ELSE IF dk < 1000 THEN ToString(dk) \o " m"
        ELSE LET tenths == (dk + 50) \div 100
             IN  ToString(tenths \div 10) \o "." \o ToString(tenths % 10)
                 \o " km"

results(hs) ==
    [i \in DOMAIN hs |->
        [id |-> hs[i].id, name |-> hs[i].name, address |-> hs[i].address,
         emergency |-> hs[i].emergency, specialties |-> hs[i].specialties,
         has_specialties |-> hs[i].has_specialties,
         distance |-> format_distance(hs[i])]]

\* responses: json is FALSE for the error page Flask sends when an
\* exception leaves the handler
NoResp == [status |-> 0, json |-> FALSE, error |-> "", details |-> "",
           hospitals |-> <<>>, fallback_used |-> FALSE]
ErrorResp(code, err, det) ==
    [status |-> code, json |-> TRUE, error |-> err, details |-> det,
     hospitals |-> <<>>, fallback_used |-> FALSE]
UnhandledResp ==
    [status |-> 500, json |-> FALSE, error |-> "", details |-> "",
     hospitals |-> <<>>, fallback_used |-> FALSE]
OkResp(hs, fb) ==
    [status |-> 200, json |-> TRUE, error |-> "", details |-> "",
     hospitals |-> results(hs), fallback_used |-> fb]

----------------------------------------------------------------------------
(* The provider                                                            *)

Point(la) == [kind |-> "point", lat |-> la]
NoGeometry == [kind |-> "none", lat |-> 0]
BadCoords == [kind |-> "bad", lat |-> 0]

Feature(n, cats, geom, fmt, line1, hours, pid) ==
    [name |-> n, categories |-> cats, geometry |-> geom, formatted |-> fmt,
     address_line1 |-> line1, opening_hours |-> hours, place_id |-> pid]

FeaturePool ==
    {Feature("City Heart Institute", <<"healthcare.hospital">>, Point(1),
             "1 Main St", "", "", "p1"),
     Feature("Smile Clinic", <<"healthcare.dentist">>, Point(0),
             "", "2 Dental Plaza", "24/7", "p2"),
     Feature("", <<"healthcare">>, Point(0), "3 Low Rd", "", "", "p3"),
     Feature("Skin & Bone Center", <<"Healthcare.Cardiology">>, NoGeometry,
             "", "", "", "p4"),
     Feature("NEURO Gastro Surgical", <<>>, Point(1),
             "5 Hill Rd", "", "", "p5"),
     Feature("Dr. Rao", <<"healthcare.dermatologist">>, BadCoords,
             "6 Park Ave", "", "", "p6")}

PadFeature == Feature("Clinic", <<>>, Point(3), "", "", "", "")

FeatureLists == UNION {[1..n -> FeaturePool] : n \in 0..MaxFeatures}
Padding == [i \in 1..PadFeatures |-> PadFeature]

\* what the outbound call can come to: an exception of requests.get
\* ("timeout"), of raise_for_status ("http_error") or of resp.json
\* ("not_json"), a JSON body that is not an object ("json_not_object"),
\* or a JSON object with a features list
NoUpstream == [kind |-> "none", features |-> <<>>]
Failure(k) == [kind |-> k, features |-> <<>>]
Features(fs) == [kind |-> "ok", features |-> fs]

CaughtFailures == {"timeout", "http_error", "not_json"}

Outcomes ==
    {Failure(k) : k \in CaughtFailures \cup {"json_not_object"}}
    \cup {Features(fs) : fs \in FeatureLists}
    \cup {Features(fs \o Padding) :
              fs \in UNION {[1..n -> FeaturePool] : n \in 0..MaxPadded}}

----------------------------------------------------------------------------
(* GET /api/nearby-hospitals: the handler                                  *)

ArgLat == {JMissing, JStr("north"), JStr("0"), JStr("1")}
ArgLng == {JMissing, JStr("0")}
ArgDepartment ==
    {JMissing, JStr(" Cardiology "), JStr("pulmonology"), JStr("Dentistry"),
     JStr("Emergency"), JStr("dental"), JStr("derm"), JStr("  ")}
ArgRadius == {JMissing, JStr("5000"), JStr("far")}
Args == [lat : ArgLat, lng : ArgLng, department : ArgDepartment,
         radius_m : ArgRadius]
NoArgs == [lat |-> JMissing, lng |-> JMissing, department |-> JMissing,
           radius_m |-> JMissing]

Respond(r) ==
    /\ resp' = r
    /\ pc' = "done"

\* a request arrives
Request ==
    /\ pc = "idle"
    /\ args' \in Args
    /\ pc' = "coords"
    /\ UNCHANGED <<GEOAPIFY_KEY, assessVars, calls, upstream, hospitals_all,
                   filtered, resp>>

\* lat = float(...); lng = float(...)
ParseCoords ==
    /\ pc = "coords"
    /\ IF float_ok(args.lat) /\ float_ok(args.lng)
       THEN pc' = "radius" /\ UNCHANGED resp
       ELSE Respond(ErrorResp(400, "lat and lng query params required", ""))
    /\ UNCHANGED <<GEOAPIFY_KEY, assessVars, args, calls, upstream,
                   hospitals_all, filtered>>

\* radius_m = int(request.args.get("radius_m") or 20000), outside any try
ParseRadius ==
    /\ pc = "radius"
    /\ IF radius_ok(args.radius_m)
       THEN pc' = "key" /\ UNCHANGED resp
       ELSE Respond(UnhandledResp)
    /\ UNCHANGED <<GEOAPIFY_KEY, assessVars, args, calls, upstream,
                   hospitals_all, filtered>>

\* if not GEOAPIFY_KEY
CheckKey ==
    /\ pc = "key"
    /\ IF KeyConfigured
       THEN pc' = "call" /\ UNCHANGED resp
       ELSE Respond(ErrorResp(500, "Geoapify API key not configured", ""))
    /\ UNCHANGED <<GEOAPIFY_KEY, assessVars, args, calls, upstream,
                   hospitals_all, filtered>>

\* the try block: requests.get, raise_for_status, resp.json
CallProvider ==
    /\ pc = "call"
    /\ calls' = Append(calls, OutboundRequest(args))
    /\ upstream' \in Outcomes
    /\ IF upstream'.kind \in CaughtFailures
       THEN Respond(ErrorResp(500, "Failed to fetch hospitals from Geoapify",
                              upstream'.kind))
       ELSE pc' = "build" /\ UNCHANGED resp
    /\ UNCHANGED <<GEOAPIFY_KEY, assessVars, args, hospitals_all, filtered>>

\* everything after the try block: records, sort, filter, fallback, response
BuildResponse ==
    /\ pc = "build"
    /\ IF upstream.kind # "ok"
       THEN /\ Respond(UnhandledResp)      \* data.get: AttributeError
            /\ UNCHANGED <<hospitals_all, filtered>>
       ELSE /\ hospitals_all' =
                   SortByDistance(BuildRecords(upstream.features,
                                               Len(upstream.features),
                                               NumVal(args.lat.s),
                                               NumVal(args.lng.s)))
            /\ \E dept \in {department(args.department)} :
               \E matched \in {Filter(hospitals_all', dept)} :
               \E fb \in {fallback_used(dept, matched)} :
                  /\ filtered' = IF fb THEN Nearest(hospitals_all')
                                 ELSE matched
                  /\ Respond(OkResp(filtered', fb))
    /\ UNCHANGED <<GEOAPIFY_KEY, assessVars, args, calls, upstream>>

\* the response is sent; the handlers keep nothing between requests
Return ==
    /\ pc = "done"
    /\ pc' = "idle"
    /\ body' = AbsentBody
    /\ assessResp' = NoResponse
    /\ args' = NoArgs
    /\ calls' = <<>>
    /\ upstream' = NoUpstream
    /\ hospitals_all' = <<>>
    /\ filtered' = <<>>
    /\ resp' = NoResp
    /\ UNCHANGED GEOAPIFY_KEY

----------------------------------------------------------------------------
(* Specifications                                                          *)

Keys == {JMissing, JStr(""), JStr("key")}

Init ==
    /\ body = AbsentBody
    /\ assessResp = NoResponse
    /\ GEOAPIFY_KEY \in Keys
    /\ pc = "idle"
    /\ args = NoArgs
    /\ calls = <<>>
    /\ upstream = NoUpstream
    /\ hospitals_all = <<>>
    /\ filtered = <<>>
    /\ resp = NoResp

Next ==
    \/ Request
    \/ ParseCoords
    \/ ParseRadius
    \/ CheckKey
    \/ CallProvider
    \/ BuildResponse
    \/ Return

\* the hospital finder
Spec == Init /\ [][Next]_vars

NextAssess ==
    \/ AssessRequest
    \/ Assess
    \/ Return

\* the triage evaluator
SpecAssess == Init /\ [][NextAssess]_vars

----------------------------------------------------------------------------
(* Properties of POST /api/assess (checked under SpecAssess)               *)

Answered == pc = "done" /\ assessResp.status # 0

\* a symptom report: every field absent or of its declared type
IsStrOrMissing(v) == v.t \in {"str", "missing"}
SymptomReport(b) ==
    /\ b.t # "nondict"
    /\ b.symptoms.t \in {"list", "missing"}
    /\ \A i \in DOMAIN b.symptoms.items : b.symptoms.items[i].t = "str"
    /\ IsStrOrMissing(b.severity)
    /\ IsStrOrMissing(b.duration)

ReportedSymptoms(b) == [i \in DOMAIN b.symptoms.items |-> b.symptoms.items[i].s]
ReportedLower(b) == {lower(ReportedSymptoms(b)[i]) : i \in DOMAIN b.symptoms.items}
ReportedSeverity(b) == IF b.severity.t = "str" THEN b.severity.s ELSE ""
ReportedDuration(b) == IF b.duration.t = "str" THEN b.duration.s ELSE ""

HasRedFlag(b) ==
    \E s \in ReportedLower(b) :
        s \in {"chest pain", "difficulty breathing", "shortness of breath",
               "loss of consciousness", "severe bleeding", "sudden weakness"}

\* C1: the concern level of every symptom report is that of the first
\* matching rule: red flag -> high; severity severe -> high; severity
\* moderate or a long duration -> moderate; three or more symptoms ->
\* moderate; otherwise low.
C1_ConcernFirstMatch ==
    (Answered /\ SymptomReport(body)) =>
        /\ assessResp.status = 200
        /\ assessResp.concern_level =
              CASE HasRedFlag(body) -> "high"
                [] ~HasRedFlag(body) /\ ReportedSeverity(body) = "severe"
                     -> "high"
                [] /\ ~HasRedFlag(body)
                   /\ ReportedSeverity(body) # "severe"
                   /\ \/ ReportedSeverity(body) = "moderate"
                      \/ ReportedDuration(body) \in
                             {"week", "weeks", "month", "chronic"}
                     -> "moderate"
                [] /\ ~HasRedFlag(body)
                   /\ ReportedSeverity(body) \notin {"severe", "moderate"}
                   /\ ReportedDuration(body) \notin
                          {"week", "weeks", "month", "chronic"}
                   /\ Len(ReportedSymptoms(body)) >= 3
                     -> "moderate"
                [] OTHER -> "low"

\* a red flag decides although the severity alone would say moderate
C1_Witness ==
    /\ Answered
    /\ SymptomReport(body)
    /\ HasRedFlag(body)
    /\ ReportedSeverity(body) = "moderate"
    /\ assessResp.concern_level = "high"

DeptKeywords ==
    <<[dept |-> "Gastroenterology",
       keys |-> {"stomach pain", "abdominal pain", "nausea", "vomiting",
                 "diarrhea", "bloating"}],
      [dept |-> "Cardiology", keys |-> {"chest pain", "palpitations", "heart"}],
      [dept |-> "Pulmonology",
       keys |-> {"shortness of breath", "breathlessness", "cough",
                 "wheezing"}],
      [dept |-> "Neurology",
       keys |-> {"headache", "migraine", "dizziness", "numbness", "seizure"}],
      [dept |-> "Dermatology", keys |-> {"rash", "itching", "skin", "hives"}]>>

RuleMatches(k, b) == DeptKeywords[k].keys \cap ReportedLower(b) # {}

\* the department of the first rule that matches, "Primary Care" if none
FirstMatchDept(b) ==
    IF \E k \in 1..5 : RuleMatches(k, b)
    THEN DeptKeywords[CHOOSE k \in 1..5 :
                          /\ RuleMatches(k, b)
                          /\ \A j \in 1..(k - 1) : ~RuleMatches(j, b)].dept
    ELSE "Primary Care"

ExpectedDepartments(concern, dept) ==
    (IF concern = "high" THEN <<"Emergency">> ELSE <<>>)
    \o (IF dept # "Primary Care" THEN <<dept>> ELSE <<>>)

\* C2: recommended_departments is "Emergency" when the concern is high,
\* followed by the first-match department unless that is "Primary Care";
\* when both are absent it is "General Medicine" for a moderate concern and
\* "Primary Care" otherwise.  ["chest pain"] gives Emergency, Cardiology;
\* ["headache", "nausea", "rash"], mild, day gives moderate and
\* Gastroenterology.
C2_RecommendedDepartments ==
    (Answered /\ SymptomReport(body)) =>
        LET expected == ExpectedDepartments(assessResp.concern_level,
                                            FirstMatchDept(body))
        IN  /\ assessResp.recommended_departments =
                  IF expected # <<>> THEN expected
                  ELSE IF assessResp.concern_level = "moderate"
                       THEN <<"General Medicine">>
                  ELSE <<"Primary Care">>
            /\ ReportedLower(body) = {"chest pain"} =>
                  assessResp.recommended_departments =
                      <<"Emergency", "Cardiology">>
            /\ (/\ ReportedSymptoms(body) = <<"headache", "nausea", "rash">>
                /\ ReportedSeverity(body) = "mild"
                /\ ReportedDuration(body) = "day") =>
                  /\ assessResp.concern_level = "moderate"
                  /\ assessResp.recommended_departments =
                         <<"Gastroenterology">>

\* the three-symptom example of the specification
C2_Witness ==
    /\ Answered
    /\ ReportedSymptoms(body) = <<"headache", "nausea", "rash">>
    /\ ReportedSeverity(body) = "mild"
    /\ ReportedDuration(body) = "day"
    /\ assessResp.recommended_departments = <<"Gastroenterology">>

\* C3: the handler has no error outcome: every request body is answered
\* with 200, and a body without symptoms, severity and duration gives
\* "low" and ["Primary Care"].
C3_NoErrorOutcome ==
    Answered =>
        /\ assessResp.status = 200
        /\ (/\ get(body, "symptoms", JList(<<>>)) = JList(<<>>)
            /\ get(body, "severity", JStr("")) = JStr("")
            /\ get(body, "duration", JStr("")) = JStr("")) =>
               /\ assessResp.concern_level = "low"
               /\ assessResp.recommended_departments = <<"Primary Care">>

----------------------------------------------------------------------------
(* Properties of GET /api/nearby-hospitals (checked under Spec)            *)

Responded == pc = "done" /\ resp.status # 0
Ok == Responded /\ resp.status = 200

Known(h) == h.distance_km # None

Requested == department(args.department)

FirstFifteen(hs) ==
    [i \in 1..(IF Len(hs) <= 15 THEN Len(hs) ELSE 15) |-> hs[i]]

\* C5: fallback_used is true exactly when a non-empty department was
\* requested and no candidate passes the filter, and the list is then the
\* first 15 candidates; otherwise the list is the candidates that pass the
\* filter, in sorted order, which is every candidate when no department is
\* given.
C5_FallbackExactly ==
    Ok =>
        LET passing == Filter(hospitals_all, Requested)
        IN  /\ resp.fallback_used = (Requested # "" /\ passing = <<>>)
            /\ resp.fallback_used => filtered = FirstFifteen(hospitals_all)
            /\ ~resp.fallback_used => filtered = passing
            /\ Requested = "" => filtered = hospitals_all

\* the fallback of a request that has more than 15 candidates
C5_Witness ==
    /\ Ok
    /\ resp.fallback_used
    /\ Len(hospitals_all) > 15
    /\ Len(filtered) = 15
    /\ Requested = "cardiology"

CoordsValid == float_ok(args.lat) /\ float_ok(args.lng)
CredentialSet == GEOAPIFY_KEY.t = "str" /\ GEOAPIFY_KEY.s # ""

\* C6: one request makes at most one outbound call, and only after the
\* coordinates and then the credential were checked: invalid coordinates
\* give 400 without a call even when the credential is missing too, a
\* missing credential gives 500 without a call, and no call follows a
\* failed one.
C6_CallOnceAfterChecks ==
    /\ [](/\ Len(calls) <= 1
          /\ calls # <<>> => (CoordsValid /\ CredentialSet)
          /\ (Responded /\ ~CoordsValid) =>
                 (resp.status = 400 /\ calls = <<>>)
          /\ (Responded /\ resp.status \in {400, 500} /\ ~CredentialSet) =>
                 calls = <<>>)
    /\ [][calls' # calls =>
             \/ calls' = <<>>
             \/ calls = <<>> /\ pc = "call" /\ upstream.kind = "none"]_vars

\* a request whose only outbound call failed
C6_Witness ==
    /\ Responded
    /\ Len(calls) = 1
    /\ upstream.kind = "timeout"
    /\ resp.status = 500

UpstreamFailed ==
    upstream.kind \in {"timeout", "http_error", "not_json", "json_not_object"}

\* C7: every upstream failure (network failure or timeout, non-success
\* status, malformed body) ends in a 500 response with an error string and
\* a details string, never in a hospitals list or an unhandled error.
C7_UpstreamFailureHandled ==
    (Responded /\ UpstreamFailed) =>
        /\ resp.status = 500
        /\ resp.json
        /\ resp.error # ""
        /\ resp.details # ""
        /\ resp.hospitals = <<>>

\* C8: the status is 400 exactly when lat or lng is missing or not
\* numeric, 500 when the credential is missing or the upstream call fails,
\* and 200 in every other case, whatever department and radius_m are.
C8_StatusTaxonomy ==
    Responded =>
        /\ (resp.status = 400) = ~CoordsValid
        /\ (CoordsValid /\ (~CredentialSet \/ UpstreamFailed)) =>
               resp.status = 500
        /\ (CoordsValid /\ CredentialSet /\ ~UpstreamFailed) =>
               resp.status = 200

InCats(feat, sub) ==
    \E i \in DOMAIN feat.categories : Contains(lower(feat.categories[i]), sub)
InName(feat, sub) == Contains(lower(feat.name), sub)
Either(feat, subs) == \E sub \in subs : InCats(feat, sub) \/ InName(feat, sub)

SpecialtyTable ==
    <<[label |-> "Cardiology", subs |-> {"cardio", "heart"}],
      [label |-> "Gastroenterology", subs |-> {"gastro"}],
      [label |-> "Neurology", subs |-> {"neuro"}],
      [label |-> "Dermatology", subs |-> {"dermatology", "derma", "skin"}],
      [label |-> "ENT", subs |-> {"ent", "ear nose throat"}],
      [label |-> "Orthopedics", subs |-> {"ortho", "bone"}],
      [label |-> "Dental", subs |-> {"dent", "dental", "dentist"}],
      [label |-> "Surgery", subs |-> {"surgical"}]>>

\* the labels of the rules that match the name or a category, in rule order
RECURSIVE RulesUpTo(_, _)
RulesUpTo(feat, k) ==
    IF k = 0 THEN <<>>
    ELSE IF Either(feat, SpecialtyTable[k].subs)
         THEN Append(RulesUpTo(feat, k - 1), SpecialtyTable[k].label)
         ELSE RulesUpTo(feat, k - 1)

\* C9: the specialties of every named feature are the labels of the rules
\* that match its category tags or its name, in rule order, and
\* has_specialties tells whether there is one.
C9_SpecialtiesEitherSource ==
    Ok =>
        \A i \in DOMAIN hospitals_all :
            LET h == hospitals_all[i]
            IN  /\ h.specialties = RulesUpTo(upstream.features[h.idx + 1], 8)
                /\ h.has_specialties = (h.specialties # <<>>)

SpecialtyLabels ==
    {"cardiology", "gastroenterology", "neurology", "dermatology", "ent",
     "orthopedics", "dental", "surgery"}
SynonymKeys ==
    {"dental", "orthopedics", "cardiology", "neurology", "dermatology",
     "gastroenterology", "ent", "primary care", "general medicine"}
Unmatchable(d) ==
    /\ d # "emergency"
    /\ \A label \in SpecialtyLabels : ~Contains(label, d)
    /\ d \notin SynonymKeys

\* C10: a department that is not "emergency", not part of a specialty
\* label and not a synonym key ("pulmonology", "dentistry") passes no
\* facility, so the response is the fallback: the first 15 candidates.
C10_UnmatchableFallsBack ==
    (Ok /\ Unmatchable(lower(strip(args.department.s)))) =>
        /\ resp.fallback_used
        /\ filtered = FirstFifteen(hospitals_all)
        /\ \A i \in DOMAIN filtered : resp.hospitals[i].id = filtered[i].id

\* "dentistry" falls back although a candidate has "Dental" in its address
C10_Witness ==
    /\ Ok
    /\ lower(strip(args.department.s)) = "dentistry"
    /\ \E i \in DOMAIN hospitals_all :
          Contains(lower(hospitals_all[i].address), "dental")
    /\ resp.fallback_used
    /\ filtered = hospitals_all

====
